---- MODULE Spec2Model ----
(***************************************************************************)
(* Model of the reactivation campaign job (src/main.py, src/utils.py).     *)
(*                                                                         *)
(* The spreadsheet is a sequence of rows addressed in A1 notation: sheet[n]*)
(* is spreadsheet row n (row 1 is the header), and a row maps the column   *)
(* letters the job reads or writes to cells.  A Python list index i into  *)
(* the rows returned by read_all_rows is sheet position i + 1.             *)
(*                                                                         *)
(* One run of main is a sequence of steps, one per blocking external call  *)
(* (the read of the sheet, a message send, a cell update), so that what    *)
(* the sheet shows between two calls is a state of the model.              *)
(***************************************************************************)
EXTENDS Integers, Sequences, FiniteSets, TLC

\* ------------------------------------------------------------------ bounds
MaxRows == 2          \* data rows of a sheet (Spec)
MaxRuns == 2          \* invocations of main in one behaviour of Spec
MaxFaults == 1        \* rows whose processing meets a failed external call, in one behaviour
MaxTicks == 2         \* clock advances in one behaviour
TickHours == 12       \* hours the clock advances in one step
MaxHead == 1          \* varied rows at the top of a long sheet (SpecBatch)
MaxExtra == 1         \* untouched rows beyond BATCH_SIZE in a long sheet (SpecBatch)
MaxBatchFaults == 1   \* the same in one behaviour of SpecBatch
MaxBatchRuns == 2     \* invocations of main in one behaviour of SpecBatch
MaxOverlapRows == 2   \* data rows of a sheet (SpecOverlap)
MaxOverlapRuns == 4   \* invocations of main in one behaviour of SpecOverlap
MaxStatusRows == 2    \* data rows of a sheet (SpecStatus)
MaxStatusRuns == 2    \* invocations of main in one behaviour of SpecStatus
MaxLiveRows == 2      \* data rows of a sheet (SpecLive)
MaxLiveFaults == 1    \* send calls that fail in one behaviour of SpecLive

\* ------------------------------------------------------- program constants
BATCH_SIZE == 30
DELAY_HOURS == 24
STATUS_COL_IDX == 8
DATE_SENT_COL_IDX == 9
CONTACT_ID_COL_IDX == 7
FIRST_NAME_COL_IDX == 1

\* The process that runs the scheduled job, and a second invocation of main
\* started by hand (python main.py) while the first may be running.
Main == "main"
Second == "second"
Procs == {Main, Second}

\* ------------------------------------------------------------------- cells
\* A cell is a string.  text is the string, except that the ISO-8601 strings
\* are kept by what they denote: text "iso" is the naive timestamp of hour t
\* (what datetime.isoformat() writes), "iso+tz" one carrying a UTC offset.
Txt(s) == [text |-> s, t |-> 0]
Empty == Txt("")
IsoNaive(h) == [text |-> "iso", t |-> h]
IsoAware(h) == [text |-> "iso+tz", t |-> h]

\* datetime.now().isoformat()
isoformat(h) == IsoNaive(h)

\* datetime.fromisoformat(s): the parsed datetime, or ValueError.
fromisoformat(c) ==
    IF c.text = "iso" THEN [ok |-> TRUE, aware |-> FALSE, t |-> c.t]
    ELSE IF c.text = "iso+tz" THEN [ok |-> TRUE, aware |-> TRUE, t |-> c.t]
    ELSE [ok |-> FALSE, aware |-> FALSE, t |-> 0]

\* str.strip() on the cell texts of the model.
StripText(s) ==
    CASE s = " New " -> "New"
      [] s = "Email Sent " -> "Email Sent"
      [] s = " " -> ""
      [] OTHER -> s

strip(c) == [c EXCEPT !.text = StripText(c.text)]

\* Mutant: every cell value passes "if not value".
Truthy_always(c) == TRUE

\* Python truthiness of a cell value (None is modelled as the empty cell).
Truthy(c) == c.text # ""

\* ------------------------------------------------------------------ sheet
\* Column letters A..Z; chr(ord('A') + col_index) is Letters[col_index + 1].
Letters == << "A", "B", "C", "D", "E", "F", "G", "H", "I", "J", "K", "L", "M",
              "N", "O", "P", "Q", "R", "S", "T", "U", "V", "W", "X", "Y", "Z" >>

\* The columns the job reads or writes: first name, contact id, status, date.
Cols == {"B", "H", "I", "J"}

ColLetter(col_index) ==
    IF col_index \in 0..25 THEN Letters[col_index + 1] ELSE "?"

\* len(row) of a row as values().get returns it: trailing empty cells are
\* dropped, so the list ends at the last non-empty cell.
RowLen(row) ==
    IF row["J"].text # "" THEN 10
    ELSE IF row["I"].text # "" THEN 9
    ELSE IF row["H"].text # "" THEN 8
    ELSE IF row["B"].text # "" THEN 2
    ELSE 0

\* row[idx] if len(row) > idx else None
CellAt(row, idx) ==
    IF RowLen(row) > idx /\ ColLetter(idx) \in Cols THEN row[ColLetter(idx)] ELSE Empty

\* Lines 78 and 145: the name the message greets.
first_name(row) ==
    IF RowLen(row) > FIRST_NAME_COL_IDX THEN CellAt(row, FIRST_NAME_COL_IDX) ELSE Txt("there")

\* Mutant: the list index is taken for the spreadsheet row number.
A1Row_asis(row_index) == row_index

\* A1 notation of update_cell: the column letter and the 1-based row number.
A1Col(col_index) == ColLetter(col_index)
A1Row(row_index) == row_index + 1

\* GoogleSheetClient.update_cell applied: the sheet with one cell replaced.
update_cell(sh, row_index, col_index, value) ==
    IF A1Row(row_index) \in 1..Len(sh) /\ A1Col(col_index) \in Cols
    THEN [sh EXCEPT ![A1Row(row_index)][A1Col(col_index)] = value]
    ELSE sh

\* GoogleSheetClient.update_status: the update_cell calls it makes, in order,
\* each a pair <<col_index, value>>.  hasDate: date_col_index and date_val are
\* both given (not None).
update_status(status_col_index, status, hasDate, date_col_index, date_val) ==
    << <<status_col_index, Txt(status)>> >>
    \o (IF hasDate THEN << <<date_col_index, date_val>> >> ELSE << >>)

\* ------------------------------------------------------------- main: reads
\* Mutant: the status cell is compared as it is, without strip().
get_status_exact(row) ==
    IF RowLen(row) > STATUS_COL_IDX THEN CellAt(row, STATUS_COL_IDX).text ELSE ""

get_status(row) ==
    IF RowLen(row) > STATUS_COL_IDX THEN strip(CellAt(row, STATUS_COL_IDX)).text ELSE ""

get_date_sent(row) ==
    IF RowLen(row) > DATE_SENT_COL_IDX THEN strip(CellAt(row, DATE_SENT_COL_IDX)) ELSE Empty

\* rows[row_idx] for a Python index row_idx
RowAt(rs, row_idx) == rs[row_idx + 1]

\* data_rows = rows[1:]
DataRows(rs) == Tail(rs)

\* Mutant: no row is taken for active, so every run starts a new batch.
IsActiveStatus_none(status) == FALSE

IsActiveStatus(status) == status = "Email Sent"

\* Mutant: a row marked "Email Failed" is taken into a new batch again.
IsNewStatus_retry(status) == status = "New" \/ status = "" \/ status = "Email Failed"

IsNewStatus(status) == status = "New" \/ status = ""

\* Lines 65-68: the loop over enumerate(data_rows); pos is i + 1, the value
\* appended (the header offset).
RECURSIVE ActiveScan(_, _, _)
ActiveScan(data_rows, pos, acc) ==
    IF pos > Len(data_rows) THEN acc
    ELSE IF IsActiveStatus(get_status(data_rows[pos]))
         THEN ActiveScan(data_rows, pos + 1, Append(acc, pos))
         ELSE ActiveScan(data_rows, pos + 1, acc)

ActiveBatchIndices(rs) == ActiveScan(DataRows(rs), 1, << >>)

\* Mutant: the break comes one row late.
CapReached_late(n) == n > BATCH_SIZE

\* Line 133: if len(new_batch_indices) >= BATCH_SIZE
CapReached(n) == n >= BATCH_SIZE

\* Lines 127-134: the loop with its break at BATCH_SIZE.
RECURSIVE NewScan(_, _, _)
NewScan(data_rows, pos, acc) ==
    IF pos > Len(data_rows) THEN acc
    ELSE IF IsNewStatus(get_status(data_rows[pos]))
         THEN LET acc2 == Append(acc, pos)
              IN  IF CapReached(Len(acc2)) THEN acc2
                  ELSE NewScan(data_rows, pos + 1, acc2)
         ELSE NewScan(data_rows, pos + 1, acc)

NewBatchIndices(rs) == NewScan(DataRows(rs), 1, << >>)

\* Mutant: a single active row does not count as an active batch.
HasActiveBatch_several(indices) == Len(indices) > 1

\* Line 70: if active_batch_indices
HasActiveBatch(indices) == Len(indices) > 0

\* Mutant: the threshold is taken in minutes, timedelta(minutes=DELAY_HOURS).
StillWaiting_minutes(nowH, sentH) == (nowH - sentH) * 60 < DELAY_HOURS

\* Lines 95-96: time_diff < timedelta(hours=DELAY_HOURS)
StillWaiting(nowH, sentH) == nowH - sentH < DELAY_HOURS

\* Mutant: the check of the contact id (lines 80-82) is missing.
SmsDecision_nocontact(row, nowH) ==
    LET date_sent_str == get_date_sent(row)
        parsed == fromisoformat(date_sent_str)
    IN  IF ~Truthy(date_sent_str) THEN "no_date"
        ELSE IF ~parsed.ok THEN "bad_date"
        ELSE IF parsed.aware THEN "type_error"
        ELSE IF nowH - parsed.t < DELAY_HOURS THEN "waiting"
        ELSE "send"

\* Lines 76-98: what the active branch does with one row at clock nowH.
SmsDecision(row, nowH) ==
    LET contact_id == CellAt(row, CONTACT_ID_COL_IDX)
        date_sent_str == get_date_sent(row)
        parsed == fromisoformat(date_sent_str)
    IN  IF ~Truthy(contact_id) THEN "no_contact"
        ELSE IF ~Truthy(date_sent_str) THEN "no_date"
        ELSE IF ~parsed.ok THEN "bad_date"
        ELSE IF parsed.aware THEN "type_error"
        ELSE IF StillWaiting(nowH, parsed.t) THEN "waiting"
        ELSE "send"

\* Lines 144-149
EmailDecision(row) ==
    IF ~Truthy(CellAt(row, CONTACT_ID_COL_IDX)) THEN "no_contact" ELSE "send"

\* Mutant: the dry_run flag is not consulted.
Live_always(dry) == TRUE

\* Lines 104, 120, 154, 171: if not dry_run
Live(dry) == ~dry

\* send_ghl_message: "ok", or the exception it raises.  httpOk: the provider
\* answered 200 or 201.
LowerText(s) == IF s = "Email" THEN "email" ELSE IF s = "SMS" THEN "sms" ELSE s

send_ghl_message(message_type, hasSubject, httpOk) ==
    IF LowerText(message_type) = "email" /\ ~hasSubject THEN "ValueError"
    ELSE IF ~httpOk THEN "Exception"
    ELSE "ok"

\* Mutant: the row is left "New" after its Email.
EmailSentStatus_new == "New"

\* The statuses main writes.
DoneStatus == "Done"
SmsFailedStatus == "SMS Failed"
EmailSentStatus == "Email Sent"
EmailFailedStatus == "Email Failed"

\* ------------------------------------------------------------------ state
VARIABLES
    sheet,        \* the spreadsheet tab: sheet[n] is row n, row 1 the header
    now,          \* the wall clock, in hours
    pc,           \* per process: where its run of main stands ("idle": none)
    dry_run,      \* per process: main's argument
    rows,         \* per process: what read_all_rows returned
    batch,        \* per process: active_batch_indices or new_batch_indices
    k,            \* per process: position in batch of the row being processed
    count,        \* per process: processed_count or new_batch_count
    pending,      \* per process: update_cell calls the running update_status still makes
    exc,          \* per process: the exception that ended its last run ("": it returned)
    scanNow,      \* history, per process: the clock when its run read the sheet
    sendCount,    \* history: per row index and channel, the send calls made
    emailed,      \* history: per row index, the hours of its successful Email send calls
    fresh0,       \* history: the row indices whose status was "New" or "" at the start
    overlapped,   \* history, per process: another run was under way during its run
    runSends,     \* history, per process: <<row_idx, channel, succeeded>> send calls of this run
    runWrites,    \* history, per process: <<A1 row, column>> written in this run
    notified,     \* history, per process: send_notification calls in this run
    runs,         \* history: invocations of main so far
    faults,       \* history: rows whose processing met a failed external call
    writeFailed   \* history: some update_cell call raised

vars == << sheet, now, pc, dry_run, rows, batch, k, count, pending, exc, scanNow,
           sendCount, emailed, fresh0, overlapped, runSends, runWrites, notified, runs, faults,
           writeFailed >>

procVars == << pc, dry_run, rows, batch, k, count, pending, exc >>
histVars == << scanNow, sendCount, emailed, fresh0, overlapped, runSends, runWrites, notified, runs,
              faults, writeFailed >>

MkRow(first, contact, status, date) ==
    [B |-> Txt(first), H |-> Txt(contact), I |-> Txt(status), J |-> date]

HeaderRow == MkRow("First name", "Contact ID", "Status", Empty)

\* Rows a sheet can hold when a run starts: untouched rows (status cell empty
\* or "New", with and without a contact id, or set back to "New" by hand with
\* the date of an earlier campaign left in place), "Email Sent" rows without a
\* contact id or whose date cell is empty, unparseable, naive (DELAY_HOURS or
\* TickHours before the clock starts) or carries a UTC offset, and a row the
\* job has finished with.
NewRows ==
    { MkRow("Jane", "c1", st, Empty) : st \in {"", "New"} }
    \cup { MkRow("Jane", "", "New", Empty),
           MkRow("Jane", "c1", "New", IsoNaive(0 - DELAY_HOURS)) }

SentDates == { Empty, Txt("yesterday"), IsoNaive(0 - DELAY_HOURS),
               IsoNaive(0 - TickHours), IsoAware(0 - DELAY_HOURS) }

ActiveRows ==
    { MkRow("Jane", "c1", "Email Sent", d) : d \in SentDates }
    \cup { MkRow("Jane", "", "Email Sent", IsoNaive(0 - DELAY_HOURS)) }

TerminalRows == { MkRow("Jane", "c1", "Done", IsoNaive(0 - DELAY_HOURS)) }

InitRows == NewRows \cup ActiveRows \cup TerminalRows

RECURSIVE SeqsUpTo(_, _)
SeqsUpTo(S, n) ==
    IF n = 0 THEN { << >> }
    ELSE LET shorter == SeqsUpTo(S, n - 1)
         IN  shorter \cup { Append(q, x) : q \in { r \in shorter : Len(r) = n - 1 }, x \in S }

InitCommon ==
    /\ now = 0
    /\ pc = [p \in Procs |-> "idle"]
    /\ dry_run = [p \in Procs |-> FALSE]
    /\ rows = [p \in Procs |-> << >>]
    /\ batch = [p \in Procs |-> << >>]
    /\ k = [p \in Procs |-> 1]
    /\ count = [p \in Procs |-> 0]
    /\ pending = [p \in Procs |-> << >>]
    /\ exc = [p \in Procs |-> ""]
    /\ scanNow = [p \in Procs |-> 0]
    /\ overlapped = [p \in Procs |-> FALSE]
    /\ runSends = [p \in Procs |-> {}]
    /\ runWrites = [p \in Procs |-> {}]
    /\ notified = [p \in Procs |-> 0]
    /\ runs = 0
    /\ faults = 0
    /\ writeFailed = FALSE

\* No message has been sent; fresh0 goes by what get_status reads at the start.
InitHistory ==
    /\ sendCount = [i \in 1..(Len(sheet) - 1) |-> [Email |-> 0, SMS |-> 0]]
    /\ emailed = [i \in 1..(Len(sheet) - 1) |-> {}]
    /\ fresh0 = { i \in 1..(Len(sheet) - 1) : IsNewStatus(get_status(RowAt(sheet, i))) }

Init ==
    /\ sheet \in { << >> } \cup { <<HeaderRow>> \o d : d \in SeqsUpTo(InitRows, MaxRows) }
    /\ InitHistory
    /\ InitCommon

\* ---------------------------------------------------------------- actions
\* The row the loop is at, from the rows this run read.
CurIdx(p) == batch[p][k[p]]
CurRow(p) == RowAt(rows[p], CurIdx(p))

InLoop(p, at) == pc[p] = at /\ k[p] <= Len(batch[p])

\* The run returns, or an exception leaves main.
Ends(p, e) ==
    /\ pc' = [pc EXCEPT ![p] = "idle"]
    /\ exc' = [exc EXCEPT ![p] = e]
    /\ pending' = [pending EXCEPT ![p] = << >>]

\* continue: the loop moves to the next row.
NextRow(p, at) ==
    /\ pc' = [pc EXCEPT ![p] = at]
    /\ k' = [k EXCEPT ![p] = k[p] + 1]
    /\ pending' = [pending EXCEPT ![p] = << >>]

LogSend(p, channel, ok) ==
    /\ sendCount' = [sendCount EXCEPT ![CurIdx(p)][channel] = @ + 1]
    /\ emailed' = IF channel = "Email" /\ ok
                  THEN [emailed EXCEPT ![CurIdx(p)] = @ \cup {now}]
                  ELSE emailed
    /\ runSends' = [runSends EXCEPT ![p] = @ \cup { <<CurIdx(p), channel, ok>> }]

\* Lines 53-72 and 123-140: the read of the sheet, the scan, the branch.
ReadAndScan(p, dry) ==
    /\ pc[p] = "idle"
    /\ dry_run' = [dry_run EXCEPT ![p] = dry]
    /\ rows' = [rows EXCEPT ![p] = sheet]
    /\ k' = [k EXCEPT ![p] = 1]
    /\ count' = [count EXCEPT ![p] = 0]
    /\ pending' = [pending EXCEPT ![p] = << >>]
    /\ exc' = [exc EXCEPT ![p] = ""]
    /\ scanNow' = [scanNow EXCEPT ![p] = now]
    /\ runSends' = [runSends EXCEPT ![p] = {}]
    /\ runWrites' = [runWrites EXCEPT ![p] = {}]
    /\ notified' = [notified EXCEPT ![p] = 0]
    /\ overlapped' = [q \in Procs |->
                        IF q = p THEN \E r \in Procs \ {p} : pc[r] # "idle"
                        ELSE overlapped[q] \/ pc[q] # "idle"]
    /\ IF sheet = << >>
       THEN /\ pc' = [pc EXCEPT ![p] = "idle"]
            /\ batch' = [batch EXCEPT ![p] = << >>]
       ELSE LET active == ActiveBatchIndices(sheet)
                fresh == NewBatchIndices(sheet)
            IN  IF HasActiveBatch(active)
                THEN /\ pc' = [pc EXCEPT ![p] = "sms_row"]
                     /\ batch' = [batch EXCEPT ![p] = active]
                ELSE IF Len(fresh) = 0
                THEN /\ pc' = [pc EXCEPT ![p] = "idle"]
                     /\ batch' = [batch EXCEPT ![p] = << >>]
                ELSE /\ pc' = [pc EXCEPT ![p] = "email_row"]
                     /\ batch' = [batch EXCEPT ![p] = fresh]
    /\ UNCHANGED << sheet, now, sendCount, faults, writeFailed,
                    emailed, fresh0 >>

\* main is invoked, at most maxRuns times in one behaviour.
StartRun(p, dry, maxRuns) ==
    /\ runs < maxRuns
    /\ runs' = runs + 1
    /\ ReadAndScan(p, dry)

\* Lines 80-98: the row is skipped (continue).
SmsSkip(p) ==
    /\ InLoop(p, "sms_row")
    /\ SmsDecision(CurRow(p), now) \in {"no_contact", "no_date", "bad_date", "waiting"}
    /\ NextRow(p, "sms_row")
    /\ UNCHANGED << sheet, now, dry_run, rows, batch, count, exc, histVars >>

\* Line 95: datetime.now() - date_sent with an offset-aware date_sent raises
\* TypeError, which nothing catches.
SmsTypeError(p) ==
    /\ InLoop(p, "sms_row")
    /\ SmsDecision(CurRow(p), now) = "type_error"
    /\ Ends(p, "TypeError")
    /\ UNCHANGED << sheet, now, dry_run, rows, batch, k, count, histVars >>

\* Lines 114-115: dry run, the row is only counted.
SmsDryRun(p) ==
    /\ InLoop(p, "sms_row")
    /\ SmsDecision(CurRow(p), now) = "send"
    /\ ~Live(dry_run[p])
    /\ count' = [count EXCEPT ![p] = count[p] + 1]
    /\ NextRow(p, "sms_row")
    /\ UNCHANGED << sheet, now, dry_run, rows, batch, exc, histVars >>

\* Line 106: the SMS send call returns; update_status(..., "Done") starts.
SmsSend(p) ==
    /\ InLoop(p, "sms_row")
    /\ SmsDecision(CurRow(p), now) = "send"
    /\ Live(dry_run[p])
    /\ send_ghl_message("SMS", FALSE, TRUE) = "ok"
    /\ LogSend(p, "SMS", TRUE)
    /\ pc' = [pc EXCEPT ![p] = "sms_update"]
    /\ pending' = [pending EXCEPT ![p] =
                     update_status(STATUS_COL_IDX, DoneStatus, FALSE, 0, Empty)]
    /\ UNCHANGED << sheet, now, dry_run, rows, batch, k, count, exc, scanNow,
                    runWrites, notified, runs, faults, writeFailed, fresh0, overlapped >>

\* Lines 106, 109-112: the SMS send call raises; the handler's
\* update_status(..., "SMS Failed") starts.
SmsSendFails(p, cap) ==
    /\ InLoop(p, "sms_row")
    /\ SmsDecision(CurRow(p), now) = "send"
    /\ Live(dry_run[p])
    /\ faults < cap
    /\ send_ghl_message("SMS", FALSE, FALSE) # "ok"
    /\ faults' = faults + 1
    /\ LogSend(p, "SMS", FALSE)
    /\ pc' = [pc EXCEPT ![p] = "sms_except"]
    /\ pending' = [pending EXCEPT ![p] =
                     update_status(STATUS_COL_IDX, SmsFailedStatus, FALSE, 0, Empty)]
    /\ UNCHANGED << sheet, now, dry_run, rows, batch, k, count, exc, scanNow,
                    runWrites, notified, runs, writeFailed, fresh0, overlapped >>

\* One update_cell call of the running update_status is applied.
ApplyCell(p) ==
    LET w == Head(pending[p])
    IN  /\ sheet' = update_cell(sheet, CurIdx(p), w[1], w[2])
        /\ runWrites' = [runWrites EXCEPT ![p] =
                           @ \cup { <<A1Row(CurIdx(p)), A1Col(w[1])>> }]

\* One update_cell call raises (HttpError).  faults counts the rows whose
\* processing met a failure: a raise in the handler follows one in the try.
InHandler(p) == pc[p] \in {"sms_except", "email_except"}

CellRaises(p, cap) ==
    /\ InHandler(p) \/ faults < cap
    /\ faults' = IF InHandler(p) THEN faults ELSE faults + 1
    /\ writeFailed' = TRUE

\* Lines 107-108: update_status(..., "Done") is applied; the row is counted.
UpdateDone(p) ==
    /\ pc[p] = "sms_update"
    /\ ApplyCell(p)
    /\ count' = [count EXCEPT ![p] = count[p] + 1]
    /\ NextRow(p, "sms_row")
    /\ UNCHANGED << now, dry_run, rows, batch, exc, scanNow, sendCount,
                    runSends, notified, runs, faults, writeFailed,
                    emailed, fresh0, overlapped >>

\* Lines 107, 109-112: update_status(..., "Done") raises inside the try; the
\* handler's update_status(..., "SMS Failed") starts.
UpdateDoneRaises(p, cap) ==
    /\ pc[p] = "sms_update"
    /\ CellRaises(p, cap)
    /\ pc' = [pc EXCEPT ![p] = "sms_except"]
    /\ pending' = [pending EXCEPT ![p] =
                     update_status(STATUS_COL_IDX, SmsFailedStatus, FALSE, 0, Empty)]
    /\ UNCHANGED << sheet, now, dry_run, rows, batch, k, count, exc, scanNow,
                    sendCount, runSends, runWrites, notified, runs,
                    emailed, fresh0, overlapped >>

\* Lines 112-113: the handler's update_status(..., "SMS Failed") is applied.
UpdateSmsFailed(p) ==
    /\ pc[p] = "sms_except"
    /\ ApplyCell(p)
    /\ NextRow(p, "sms_row")
    /\ UNCHANGED << now, dry_run, rows, batch, count, exc, scanNow, sendCount,
                    runSends, notified, runs, faults, writeFailed,
                    emailed, fresh0, overlapped >>

\* Line 112: the handler's update_status raises; the exception leaves main.
UpdateSmsFailedRaises(p, cap) ==
    /\ pc[p] = "sms_except"
    /\ CellRaises(p, cap)
    /\ Ends(p, "HttpError")
    /\ UNCHANGED << sheet, now, dry_run, rows, batch, k, count, scanNow,
                    sendCount, runSends, runWrites, notified, runs,
                    emailed, fresh0, overlapped >>

\* Lines 117-121 and 168-172: the loop is over; the summary notification.
Summary(p) ==
    /\ notified' = [notified EXCEPT ![p] =
                      IF count[p] > 0 /\ Live(dry_run[p]) THEN notified[p] + 1 ELSE notified[p]]
    /\ Ends(p, "")

SmsFinish(p) ==
    /\ pc[p] = "sms_row"
    /\ k[p] > Len(batch[p])
    /\ Summary(p)
    /\ UNCHANGED << sheet, now, dry_run, rows, batch, k, count, scanNow,
                    sendCount, runSends, runWrites, runs, faults, writeFailed, emailed, fresh0, overlapped >>

\* Lines 147-149: the row has no contact id and is skipped (continue).
EmailSkip(p) ==
    /\ InLoop(p, "email_row")
    /\ EmailDecision(CurRow(p)) = "no_contact"
    /\ NextRow(p, "email_row")
    /\ UNCHANGED << sheet, now, dry_run, rows, batch, count, exc, histVars >>

\* Lines 165-166: dry run, the row is only counted.
EmailDryRun(p) ==
    /\ InLoop(p, "email_row")
    /\ EmailDecision(CurRow(p)) = "send"
    /\ ~Live(dry_run[p])
    /\ count' = [count EXCEPT ![p] = count[p] + 1]
    /\ NextRow(p, "email_row")
    /\ UNCHANGED << sheet, now, dry_run, rows, batch, exc, histVars >>

\* Lines 156-158: the Email send call returns, current_time is taken, and
\* update_status(..., "Email Sent", DATE_SENT_COL_IDX, current_time) starts.
EmailSend(p) ==
    /\ InLoop(p, "email_row")
    /\ EmailDecision(CurRow(p)) = "send"
    /\ Live(dry_run[p])
    /\ send_ghl_message("Email", TRUE, TRUE) = "ok"
    /\ LogSend(p, "Email", TRUE)
    /\ pc' = [pc EXCEPT ![p] = "email_update"]
    /\ pending' = [pending EXCEPT ![p] =
                     update_status(STATUS_COL_IDX, EmailSentStatus, TRUE,
                                   DATE_SENT_COL_IDX, isoformat(now))]
    /\ UNCHANGED << sheet, now, dry_run, rows, batch, k, count, exc, scanNow,
                    runWrites, notified, runs, faults, writeFailed, fresh0, overlapped >>

\* Lines 156, 160-163: the Email send call raises; the handler's
\* update_status(..., "Email Failed") starts.
EmailSendFails(p, cap) ==
    /\ InLoop(p, "email_row")
    /\ EmailDecision(CurRow(p)) = "send"
    /\ Live(dry_run[p])
    /\ faults < cap
    /\ send_ghl_message("Email", TRUE, FALSE) # "ok"
    /\ faults' = faults + 1
    /\ LogSend(p, "Email", FALSE)
    /\ pc' = [pc EXCEPT ![p] = "email_except"]
    /\ pending' = [pending EXCEPT ![p] =
                     update_status(STATUS_COL_IDX, EmailFailedStatus, FALSE, 0, Empty)]
    /\ UNCHANGED << sheet, now, dry_run, rows, batch, k, count, exc, scanNow,
                    runWrites, notified, runs, writeFailed, fresh0, overlapped >>

\* Line 158 (utils 118-120): one update_cell call of
\* update_status(..., "Email Sent", ...) is applied; after the last one the
\* row is counted (line 159).
UpdateEmailSent(p) ==
    /\ pc[p] = "email_update"
    /\ ApplyCell(p)
    /\ IF Len(pending[p]) > 1
       THEN /\ pending' = [pending EXCEPT ![p] = Tail(pending[p])]
            /\ UNCHANGED << pc, k, count, fresh0, overlapped >>
       ELSE /\ count' = [count EXCEPT ![p] = count[p] + 1]
            /\ NextRow(p, "email_row")
    /\ UNCHANGED << now, dry_run, rows, batch, exc, scanNow, sendCount,
                    runSends, notified, runs, faults, writeFailed,
                    emailed, fresh0, overlapped >>

\* Lines 158, 160-163: an update_cell call of update_status(..., "Email Sent",
\* ...) raises inside the try; the handler's update_status(..., "Email
\* Failed") starts.
UpdateEmailSentRaises(p, cap) ==
    /\ pc[p] = "email_update"
    /\ CellRaises(p, cap)
    /\ pc' = [pc EXCEPT ![p] = "email_except"]
    /\ pending' = [pending EXCEPT ![p] =
                     update_status(STATUS_COL_IDX, EmailFailedStatus, FALSE, 0, Empty)]
    /\ UNCHANGED << sheet, now, dry_run, rows, batch, k, count, exc, scanNow,
                    sendCount, runSends, runWrites, notified, runs,
                    emailed, fresh0, overlapped >>

\* Lines 163-164: the handler's update_status(..., "Email Failed") is applied.
UpdateEmailFailed(p) ==
    /\ pc[p] = "email_except"
    /\ ApplyCell(p)
    /\ NextRow(p, "email_row")
    /\ UNCHANGED << now, dry_run, rows, batch, count, exc, scanNow, sendCount,
                    runSends, notified, runs, faults, writeFailed,
                    emailed, fresh0, overlapped >>

\* Line 163: the handler's update_status raises; the exception leaves main.
UpdateEmailFailedRaises(p, cap) ==
    /\ pc[p] = "email_except"
    /\ CellRaises(p, cap)
    /\ Ends(p, "HttpError")
    /\ UNCHANGED << sheet, now, dry_run, rows, batch, k, count, scanNow,
                    sendCount, runSends, runWrites, notified, runs,
                    emailed, fresh0, overlapped >>

EmailFinish(p) ==
    /\ pc[p] = "email_row"
    /\ k[p] > Len(batch[p])
    /\ Summary(p)
    /\ UNCHANGED << sheet, now, dry_run, rows, batch, k, count, scanNow,
                    sendCount, runSends, runWrites, runs, faults, writeFailed, emailed, fresh0, overlapped >>

\* The clock advances.
Tick ==
    /\ now + TickHours <= MaxTicks * TickHours
    /\ now' = now + TickHours
    /\ UNCHANGED << sheet, procVars, histVars >>

\* ---------------------------------------------------------- specifications
Idle == \A q \in Procs : pc[q] = "idle"

\* Runs of main one after the other (the scheduler's invocations do not
\* overlap), on sheets of up to MaxRows data rows.
Next ==
    \/ \E dry \in BOOLEAN : Idle /\ StartRun(Main, dry, MaxRuns)
    \/ SmsSkip(Main)
    \/ SmsTypeError(Main)
    \/ SmsDryRun(Main)
    \/ SmsSend(Main)
    \/ SmsSendFails(Main, MaxFaults)
    \/ UpdateDone(Main)
    \/ UpdateDoneRaises(Main, MaxFaults)
    \/ UpdateSmsFailed(Main)
    \/ UpdateSmsFailedRaises(Main, MaxFaults)
    \/ SmsFinish(Main)
    \/ EmailSkip(Main)
    \/ EmailDryRun(Main)
    \/ EmailSend(Main)
    \/ EmailSendFails(Main, MaxFaults)
    \/ UpdateEmailSent(Main)
    \/ UpdateEmailSentRaises(Main, MaxFaults)
    \/ UpdateEmailFailed(Main)
    \/ UpdateEmailFailedRaises(Main, MaxFaults)
    \/ EmailFinish(Main)
    \/ Tick

Spec == Init /\ [][Next]_vars

\* Long sheets, for the batch cap: up to MaxHead varied rows, then between
\* BATCH_SIZE - 1 and BATCH_SIZE + MaxExtra untouched rows with a contact id.
FillerRow == MkRow("Jane", "c1", "New", Empty)

HeadRows ==
    { MkRow("Jane", "c1", "Done", IsoNaive(0 - DELAY_HOURS)),
      MkRow("Jane", "", "", Empty),
      MkRow("Jane", "c1", "Email Sent", IsoNaive(0 - DELAY_HOURS)),
      MkRow("Jane", "c1", "Email Sent", IsoAware(0 - DELAY_HOURS)) }

Fill(n) == [i \in 1..n |-> FillerRow]

InitBatch ==
    /\ sheet \in { <<HeaderRow>> \o h \o Fill(n) :
                     h \in SeqsUpTo(HeadRows, MaxHead),
                     n \in (BATCH_SIZE - 1)..(BATCH_SIZE + MaxExtra) }
    /\ InitHistory
    /\ InitCommon

\* On a long sheet the external calls fail only while one of the first rows is
\* processed.
FaultRow(p) == pc[p] # "idle" /\ k[p] <= Len(batch[p]) /\ CurIdx(p) <= MaxHead + 1

\* The scheduled runs (run_job, never a dry run) on long sheets; the clock
\* advances between runs.
NextBatch ==
    \/ Idle /\ StartRun(Main, FALSE, MaxBatchRuns)
    \/ SmsSkip(Main)
    \/ SmsTypeError(Main)
    \/ SmsSend(Main)
    \/ FaultRow(Main) /\ SmsSendFails(Main, MaxBatchFaults)
    \/ UpdateDone(Main)
    \/ FaultRow(Main) /\ UpdateDoneRaises(Main, MaxBatchFaults)
    \/ UpdateSmsFailed(Main)
    \/ FaultRow(Main) /\ UpdateSmsFailedRaises(Main, MaxBatchFaults)
    \/ SmsFinish(Main)
    \/ EmailSkip(Main)
    \/ EmailSend(Main)
    \/ FaultRow(Main) /\ EmailSendFails(Main, MaxBatchFaults)
    \/ UpdateEmailSent(Main)
    \/ FaultRow(Main) /\ UpdateEmailSentRaises(Main, MaxBatchFaults)
    \/ UpdateEmailFailed(Main)
    \/ FaultRow(Main) /\ UpdateEmailFailedRaises(Main, MaxBatchFaults)
    \/ EmailFinish(Main)
    \/ Idle /\ Tick

SpecBatch == InitBatch /\ [][NextBatch]_vars

\* Invocations that overlap: the scheduled job and one started by hand, neither
\* a dry run, on short sheets of untouched and ready rows; every send call
\* returns and every write is applied.  Nothing in main or utils keeps the
\* second from starting while the first is between its read and its writes.
OverlapRows ==
    { MkRow("Jane", "c1", "New", Empty),
      MkRow("Jane", "c1", "Email Sent", IsoNaive(0 - DELAY_HOURS)) }

InitOverlap ==
    /\ sheet \in { <<HeaderRow>> \o d : d \in SeqsUpTo(OverlapRows, MaxOverlapRows) }
    /\ InitHistory
    /\ InitCommon

NextOverlap ==
    \/ \E p \in Procs : StartRun(p, FALSE, MaxOverlapRuns)
    \/ \E p \in Procs : SmsSkip(p)
    \/ \E p \in Procs : SmsSend(p)
    \/ \E p \in Procs : UpdateDone(p)
    \/ \E p \in Procs : SmsFinish(p)
    \/ \E p \in Procs : EmailSend(p)
    \/ \E p \in Procs : UpdateEmailSent(p)
    \/ \E p \in Procs : EmailFinish(p)
    \/ Idle /\ Tick

SpecOverlap == InitOverlap /\ [][NextOverlap]_vars

\* Sheets whose status cells were typed by hand: exact, padded with blanks, or
\* in another case.  Every send call returns and every write is applied.
StatusRows ==
    { MkRow("Jane", "c1", st, Empty) : st \in {"New", " New ", " ", "new"} }
    \cup { MkRow("Jane", "c1", st, IsoNaive(0 - DELAY_HOURS)) :
             st \in {"Email Sent", "Email Sent ", "email sent"} }

InitStatus ==
    /\ sheet \in { <<HeaderRow>> \o d : d \in SeqsUpTo(StatusRows, MaxStatusRows) }
    /\ InitHistory
    /\ InitCommon

NextStatus ==
    \/ Idle /\ StartRun(Main, FALSE, MaxStatusRuns)
    \/ SmsSkip(Main)
    \/ SmsSend(Main)
    \/ UpdateDone(Main)
    \/ SmsFinish(Main)
    \/ EmailSend(Main)
    \/ UpdateEmailSent(Main)
    \/ EmailFinish(Main)
    \/ Idle /\ Tick

SpecStatus == InitStatus /\ [][NextStatus]_vars

\* The job run again and again by the scheduler, never as a dry run, on sheets
\* where every untouched or "Email Sent" row has a contact id and every
\* "Email Sent" row a date that fromisoformat accepts.  A send call returns or
\* raises; every write is applied.  Runs are not counted, and of the clock only
\* the advances that a waiting row can observe are kept.
LiveRows ==
    { MkRow("Jane", "c1", st, Empty) : st \in {"", "New"} }
    \cup { MkRow("Jane", "c1", "Email Sent", d) :
             d \in { IsoNaive(0 - DELAY_HOURS), IsoNaive(0 - TickHours),
                     IsoAware(0 - DELAY_HOURS) } }
    \cup TerminalRows

InitLive ==
    /\ sheet \in { <<HeaderRow>> \o d : d \in SeqsUpTo(LiveRows, MaxLiveRows) }
    /\ InitHistory
    /\ InitCommon

StartLive == Idle /\ ReadAndScan(Main, FALSE) /\ UNCHANGED runs

\* The steps of a run once it has read the sheet.
StepLive ==
    \/ SmsSkip(Main)
    \/ SmsTypeError(Main)
    \/ SmsSend(Main)
    \/ SmsSendFails(Main, MaxLiveFaults)
    \/ UpdateDone(Main)
    \/ UpdateSmsFailed(Main)
    \/ SmsFinish(Main)
    \/ EmailSend(Main)
    \/ EmailSendFails(Main, MaxLiveFaults)
    \/ UpdateEmailSent(Main)
    \/ UpdateEmailFailed(Main)
    \/ EmailFinish(Main)

\* Some "Email Sent" row is within DELAY_HOURS of its date.
SomeRowWaits ==
    \E i \in 1..(Len(sheet) - 1) :
        /\ IsActiveStatus(get_status(RowAt(sheet, i)))
        /\ SmsDecision(RowAt(sheet, i), now) = "waiting"

TickLive ==
    /\ SomeRowWaits
    /\ now' = now + TickHours
    /\ UNCHANGED << sheet, procVars, histVars >>

NextLive == StartLive \/ StepLive \/ TickLive

\* The scheduler keeps invoking main, a run that has started goes on, and time
\* passes.
SpecLive ==
    /\ InitLive
    /\ [][NextLive]_vars
    /\ WF_vars(StartLive)
    /\ WF_vars(StepLive)
    /\ WF_vars(TickLive)

\* ------------------------------------------------------------------ claims
\* Python indices of the data rows of rs.
DataIdxOf(rs) == 1..(Len(rs) - 1)

\* The status cell as the sheet holds it, and the date cell.
RawStatus(row) == row["I"].text
DateCell(row) == row["J"]
HasContact(row) == row["H"].text # ""

SentTo(p, i, channel) == \E ok \in BOOLEAN : <<i, channel, ok>> \in runSends[p]
Wrote(p, i) == \E c \in Cols : <<i + 1, c>> \in runWrites[p]

\* C1 (branch exclusivity): in every run, if a data row had status "Email Sent"
\* when the sheet was read, no row that then had status "New" or "" is sent an
\* Email or has a cell written; and no run makes both an Email and an SMS send.
C1_BranchExclusivity ==
    \A p \in Procs :
        /\ (\E i \in DataIdxOf(rows[p]) : RawStatus(RowAt(rows[p], i)) = "Email Sent")
             => \A j \in DataIdxOf(rows[p]) :
                    RawStatus(RowAt(rows[p], j)) \in {"New", ""}
                      => /\ ~SentTo(p, j, "Email")
                         /\ ~Wrote(p, j)
                         /\ RowAt(sheet, j) = RowAt(rows[p], j)
        /\ ~(\E i, j \in DataIdxOf(rows[p]) : SentTo(p, i, "Email") /\ SentTo(p, j, "SMS"))

\* A finished run that sent an SMS to an "Email Sent" row while an untouched
\* row with a contact id was on the sheet.
C1_Witness ==
    \E p \in Procs :
        /\ pc[p] = "idle"
        /\ \E i, j \in DataIdxOf(rows[p]) :
              /\ RawStatus(RowAt(rows[p], i)) = "Email Sent"
              /\ <<i, "SMS", TRUE>> \in runSends[p]
              /\ RawStatus(RowAt(rows[p], j)) = "New"
              /\ HasContact(RowAt(rows[p], j))

\* C2 (no double send): as long as every update_cell call was applied, each row
\* has been the target of at most one Email send call and at most one SMS send
\* call, whatever the calls' outcomes.
C2_AtMostOneSendPerStage ==
    ~writeFailed =>
        \A i \in DOMAIN sendCount : sendCount[i]["Email"] <= 1 /\ sendCount[i]["SMS"] <= 1

\* A row that got its Email in one run and its SMS in a later one, next to a
\* row whose send failed, with every write applied.
C2_Witness ==
    /\ ~writeFailed
    /\ faults > 0
    /\ runs >= 2
    /\ \E i \in DOMAIN sendCount : sendCount[i]["Email"] = 1 /\ sendCount[i]["SMS"] = 1

\* A run of p has ended after reading a sheet with at least its header.
RunOver(p) == pc[p] = "idle" /\ rows[p] # << >>

\* The date cell parses as a datetime from which the clock can be subtracted.
Elapsed(row, nowH) == nowH - fromisoformat(DateCell(row)).t
DateUsable(row) == fromisoformat(DateCell(row)).ok /\ ~fromisoformat(DateCell(row)).aware

\* Row i was, when p read the sheet, "Email Sent" with a contact id and a date
\* at least DELAY_HOURS old.
ReadyAtScan(p, i) ==
    LET row == RowAt(rows[p], i)
    IN  /\ RawStatus(row) = "Email Sent"
        /\ HasContact(row)
        /\ DateUsable(row)
        /\ Elapsed(row, scanNow[p]) >= DELAY_HOURS

\* C3 (ready rows advance): when a non-dry run has returned, every row that was
\* ready at scan time is no longer "Email Sent": it is "Done" if its SMS send
\* call succeeded and "SMS Failed" if the call failed.  (The claim, for the
\* runs that return; it says the same of the runs an exception ends.)
C3_ReadyRowsAdvance ==
    \A p \in Procs :
        (RunOver(p) /\ exc[p] = "" /\ ~dry_run[p]) =>
            \A i \in DataIdxOf(rows[p]) :
                ReadyAtScan(p, i) =>
                    /\ RawStatus(RowAt(sheet, i)) # "Email Sent"
                    /\ <<i, "SMS", TRUE>> \in runSends[p] => RawStatus(RowAt(sheet, i)) = "Done"
                    /\ <<i, "SMS", FALSE>> \in runSends[p] => RawStatus(RowAt(sheet, i)) = "SMS Failed"

\* Row is "Email Sent" with a date less than DELAY_HOURS before nowH.
Gated(row, nowH) ==
    /\ RawStatus(row) = "Email Sent"
    /\ DateUsable(row)
    /\ Elapsed(row, nowH) < DELAY_HOURS

\* C4 (delay gate): no step taken while a row is "Email Sent" with a date less
\* than 24 hours before the clock sends an SMS to that row or changes its
\* status or its date.
C4_DelayGate ==
    [][ \A i \in DataIdxOf(sheet) :
            Gated(RowAt(sheet, i), now) =>
                /\ RowAt(sheet', i) = RowAt(sheet, i)
                /\ sendCount'[i]["SMS"] = sendCount[i]["SMS"] ]_vars

\* Position of row index i in the batch of p (0: not in it).
PosInBatch(p, i) ==
    IF \E n \in 1..Len(batch[p]) : batch[p][n] = i
    THEN CHOOSE n \in 1..Len(batch[p]) : batch[p][n] = i
    ELSE 0

\* A non-dry run of the active branch has passed a row that is still gated.
C4_Witness ==
    \E p \in Procs : \E i \in DataIdxOf(sheet) :
        /\ ~dry_run[p]
        /\ pc[p] \in {"sms_row", "idle"}
        /\ PosInBatch(p, i) > 0
        /\ PosInBatch(p, i) < k[p]
        /\ Gated(RowAt(sheet, i), now)
        /\ HasContact(RowAt(sheet, i))

\* C5 (dry run): a dry run makes no send call, no cell update and no
\* notification call, and the sheet stays what the run read.
C5_DryRunTouchesNothing ==
    \A p \in Procs :
        dry_run[p] =>
            /\ runSends[p] = {}
            /\ runWrites[p] = {}
            /\ notified[p] = 0
            /\ sheet = rows[p]

\* A dry run has ended after counting at least one row.
C5_Witness ==
    \E p \in Procs : dry_run[p] /\ pc[p] = "idle" /\ count[p] > 0

\* The rows p's run read as eligible for a new batch, and the rows it selected.
EligibleAtScan(p) ==
    { i \in DataIdxOf(rows[p]) : StripText(RawStatus(RowAt(rows[p], i))) \in {"New", ""} }
NoActiveAtScan(p) ==
    \A i \in DataIdxOf(rows[p]) : StripText(RawStatus(RowAt(rows[p], i))) # "Email Sent"
Selected(p) == { batch[p][n] : n \in 1..Len(batch[p]) }
Min(a, b) == IF a <= b THEN a ELSE b

\* C6 (new-batch selection): in a run that read no "Email Sent" row, the rows
\* selected are the min(BATCH_SIZE, k) lowest-indexed of the k eligible rows,
\* never more than BATCH_SIZE, and an eligible row left out is neither sent a
\* message nor written in that run.
C6_NewBatchSelection ==
    \A p \in Procs :
        (rows[p] # << >> /\ NoActiveAtScan(p)) =>
            LET eligible == EligibleAtScan(p)
                selected == Selected(p)
                left == eligible \ selected
            IN  /\ Len(batch[p]) = Cardinality(selected)
                /\ selected \subseteq eligible
                /\ Cardinality(selected) = Min(BATCH_SIZE, Cardinality(eligible))
                /\ Cardinality(selected) <= BATCH_SIZE
                /\ \A i \in selected : \A j \in left : i < j
                /\ \A j \in left :
                      /\ ~SentTo(p, j, "Email") /\ ~SentTo(p, j, "SMS")
                      /\ ~Wrote(p, j)
                      /\ RowAt(sheet, j) = RowAt(rows[p], j)

\* A non-dry run has ended that selected BATCH_SIZE rows, skipping a row that
\* was not eligible, and left an eligible row beyond the cap.
C6_Witness ==
    \E p \in Procs :
        /\ RunOver(p) /\ ~dry_run[p] /\ NoActiveAtScan(p)
        /\ Len(batch[p]) = BATCH_SIZE
        /\ EligibleAtScan(p) \ Selected(p) # {}
        /\ \E i \in DataIdxOf(rows[p]) : i \notin EligibleAtScan(p) /\ i < batch[p][1]
        /\ \E i \in Selected(p) : <<i, "Email", TRUE>> \in runSends[p]

\* The status of data row i of sheet sh, as the job reads it.
StatusIn(sh, i) == StripText(RawStatus(RowAt(sh, i)))

ForwardStep(old, new) ==
    \/ new = old
    \/ old \in {"New", ""} /\ new \in {"Email Sent", "Email Failed"}
    \/ old = "Email Sent" /\ new \in {"Done", "SMS Failed"}

\* C7 (forward-only statuses): every step changes a row's status only along
\* New/"" -> "Email Sent", New/"" -> "Email Failed", "Email Sent" -> "Done",
\* "Email Sent" -> "SMS Failed", and a row that is "Done", "Email Failed" or
\* "SMS Failed" never changes status and is never sent a message again.
C7_ForwardOnly ==
    [][ \A i \in DataIdxOf(sheet) :
            /\ ForwardStep(StatusIn(sheet, i), StatusIn(sheet', i))
            /\ StatusIn(sheet, i) \in {"Done", "Email Failed", "SMS Failed"}
                 => sendCount'[i] = sendCount[i] ]_vars

\* C8 (date with "Email Sent"): in every state of the sheet, a row whose status
\* the running job has set to "Email Sent" has a non-empty date_sent, and the
\* job has written the date cell of no row whose status it did not set to
\* "Email Sent".
C8_DateSetWithEmailSent ==
    \A p \in Procs : \A i \in DataIdxOf(sheet) :
        /\ (<<i + 1, "I">> \in runWrites[p] /\ RawStatus(RowAt(sheet, i)) = "Email Sent")
             => DateCell(RowAt(sheet, i)).text # ""
        /\ <<i + 1, "J">> \in runWrites[p]
             => (<<i + 1, "I">> \in runWrites[p] /\ <<i, "Email", TRUE>> \in runSends[p])

\* C9 (failure isolation): a failed send call or cell update never ends the
\* run: a run that has ended for any other reason than a TypeError on a date
\* has gone through every row of its batch.
C9_FailureIsolation ==
    \A p \in Procs :
        (pc[p] = "idle" /\ exc[p] # "TypeError") => k[p] > Len(batch[p])

\* Row has no contact id, no date, or a date that does not parse.
DataError(row) ==
    \/ ~HasContact(row)
    \/ StripText(DateCell(row).text) = ""
    \/ DateCell(row).text \notin {"iso", "iso+tz"}

\* The rows of p's batch at positions before n.
Passed(p, n) == { batch[p][m] : m \in 1..(Min(n, Len(batch[p]) + 1) - 1) }

\* C10 (row-level data errors): in a run of the active branch, a row that was
\* read as "Email Sent" with a missing contact id or a missing or unparseable
\* date is sent no SMS, is not written and keeps its cells; it is not counted;
\* and the loop goes on: a run that returned went through its whole batch and,
\* not being a dry run, made the SMS send call for every row ready at scan time.
C10_DataErrorRowsSkipped ==
    \A p \in Procs :
        (rows[p] # << >> /\ ~NoActiveAtScan(p)) =>
            /\ \A i \in Selected(p) :
                  DataError(RowAt(rows[p], i)) =>
                      /\ ~SentTo(p, i, "SMS") /\ ~SentTo(p, i, "Email")
                      /\ ~Wrote(p, i)
                      /\ RowAt(sheet, i) = RowAt(rows[p], i)
            /\ count[p] <= Cardinality({ i \in Passed(p, k[p]) : ~DataError(RowAt(rows[p], i)) })
            /\ (pc[p] = "idle" /\ exc[p] = "") =>
                  /\ k[p] > Len(batch[p])
                  /\ ~dry_run[p] => \A j \in Selected(p) : ReadyAtScan(p, j) => SentTo(p, j, "SMS")

\* A non-dry run has returned that skipped a row with a data error and then
\* sent the SMS to a later row.
C10_Witness ==
    \E p \in Procs :
        /\ pc[p] = "idle" /\ exc[p] = "" /\ ~dry_run[p]
        /\ \E i, j \in Selected(p) :
              /\ i < j
              /\ RawStatus(RowAt(rows[p], i)) = "Email Sent"
              /\ DataError(RowAt(rows[p], i))
              /\ <<j, "SMS", TRUE>> \in runSends[p]
              /\ count[p] = 1

\* The date cell holds a naive ISO timestamp taken between p's read of the
\* sheet and the present.
StampedInRun(p, row) ==
    /\ DateCell(row).text = "iso"
    /\ DateCell(row).t >= scanNow[p]
    /\ DateCell(row).t <= now

\* C11 (Email step outcome): when a non-dry run of the new-batch branch has
\* returned, a selected row with a contact id is "Email Sent" with the date of
\* the run exactly if its Email send call succeeded, and "Email Failed" with
\* an empty date exactly if the call failed; a selected row without a contact
\* id was sent nothing and keeps its cells.
C11_EmailStepOutcome ==
    \A p \in Procs :
        (RunOver(p) /\ exc[p] = "" /\ ~dry_run[p] /\ NoActiveAtScan(p)) =>
            \A i \in Selected(p) :
                LET row == RowAt(sheet, i)
                    read == RowAt(rows[p], i)
                IN  IF HasContact(read)
                    THEN /\ <<i, "Email", TRUE>> \in runSends[p]
                              <=> (RawStatus(row) = "Email Sent" /\ StampedInRun(p, row))
                         /\ <<i, "Email", FALSE>> \in runSends[p]
                              <=> (RawStatus(row) = "Email Failed" /\ DateCell(row) = Empty)
                    ELSE /\ ~SentTo(p, i, "Email") /\ ~SentTo(p, i, "SMS")
                         /\ ~Wrote(p, i)
                         /\ row = read

\* C12 (two-step ordering): every step that makes an SMS send call for a row
\* that started "New" or "" comes after a successful Email send call for that
\* row, made in an earlier run at the hour the row's date holds, and at least
\* DELAY_HOURS after it.
C12_TwoStepOrdering ==
    [][ \A p \in Procs : \A i \in DataIdxOf(sheet) :
            (/\ i \in fresh0
             /\ SentTo(p, i, "SMS")'
             /\ ~SentTo(p, i, "SMS")) =>
                /\ emailed[i] # {}
                /\ ~SentTo(p, i, "Email")
                /\ DateUsable(RowAt(sheet, i))
                /\ fromisoformat(DateCell(RowAt(sheet, i))).t \in emailed[i]
                /\ \A h \in emailed[i] : now - h >= DELAY_HOURS ]_vars

\* C13 (overlapping invocations): nothing excludes two runs from overlapping,
\* and then a row can be sent the same message twice (C13_Witness).  What does
\* hold is the converse: a send call for a row that has already been the target
\* of that message is made only by a run during which another run was under way.
C13_DoubleSendOnlyByOverlap ==
    [][ \A p \in Procs : \A i \in DataIdxOf(sheet) : \A c \in {"Email", "SMS"} :
            (SentTo(p, i, c)' /\ ~SentTo(p, i, c) /\ sendCount[i][c] >= 1)
                => overlapped[p] ]_vars

\* With every write applied, the same row has been sent the Email twice and,
\* a day later, the SMS twice.
C13_Witness ==
    /\ ~writeFailed
    /\ \E i \in DataIdxOf(sheet) :
          /\ i \in fresh0
          /\ sendCount[i]["Email"] = 2
          /\ sendCount[i]["SMS"] = 2

\* C14 (summary notification): a run makes at most one notification call, none
\* before its loop is over, and a run that has ended has made one exactly if
\* it was not a dry run and counted at least one row.
C14_SummaryNotification ==
    \A p \in Procs :
        /\ notified[p] <= 1
        /\ pc[p] # "idle" => notified[p] = 0
        /\ pc[p] = "idle" => (notified[p] = 1 <=> (~dry_run[p] /\ count[p] > 0))

\* The status cell of row i as p's run read it, and without surrounding blanks.
ReadRaw(p, i) == RawStatus(RowAt(rows[p], i))
ReadStripped(p, i) == StripText(ReadRaw(p, i))

Untouched(p, i) ==
    /\ ~SentTo(p, i, "Email") /\ ~SentTo(p, i, "SMS")
    /\ ~Wrote(p, i)
    /\ RowAt(sheet, i) = RowAt(rows[p], i)

\* C15 as stated (exact comparison, no normalization): a row whose status cell
\* is not exactly "Email Sent", "New" or "" is in no batch and is neither
\* messaged nor written.
C15_ExactComparison ==
    \A p \in Procs : \A i \in DataIdxOf(rows[p]) :
        ReadRaw(p, i) \notin {"Email Sent", "New", ""} =>
            i \notin Selected(p) /\ Untouched(p, i)

\* C15, amended (comparison after strip()): the status cell is compared without
\* its leading and trailing blanks, case-sensitively.  A run with an active
\* batch takes exactly the rows whose stripped status is "Email Sent"; a run
\* without one takes exactly those whose stripped status is "New" or "" (on
\* sheets shorter than BATCH_SIZE); a row whose stripped status is none of the
\* three is neither messaged nor written.
C15_StrippedComparison ==
    \A p \in Procs : \A i \in DataIdxOf(rows[p]) :
        /\ ~NoActiveAtScan(p) => (i \in Selected(p) <=> ReadStripped(p, i) = "Email Sent")
        /\ NoActiveAtScan(p) => (i \in Selected(p) <=> ReadStripped(p, i) \in {"New", ""})
        /\ ReadStripped(p, i) \notin {"Email Sent", "New", ""} => Untouched(p, i)

\* A run has ended that sent the SMS to a row whose status cell read
\* "Email Sent " and left alone a row whose status cell read "email sent".
C15_Witness ==
    \E p \in Procs :
        /\ pc[p] = "idle"
        /\ \E i, j \in DataIdxOf(rows[p]) :
              /\ ReadRaw(p, i) = "Email Sent "
              /\ <<i, "SMS", TRUE>> \in runSends[p]
              /\ RawStatus(RowAt(sheet, i)) = "Done"
              /\ ReadRaw(p, j) = "email sent"
              /\ Untouched(p, j)

\* C16 (row identity and frame): in every state of a run, the sheet has the
\* rows the run read, in the same places; the cells written are status and date
\* cells of rows of the batch for which the run made a send call, addressed by
\* the row's own spreadsheet row number; first name and contact id of every row
\* are as read, and a row for which no send call was made is as read.
C16_RowIdentityAndFrame ==
    \A p \in Procs :
        rows[p] # << >> =>
            /\ Len(sheet) = Len(rows[p])
            /\ sheet[1] = rows[p][1]
            /\ runWrites[p] \subseteq
                 { <<i + 1, c>> : i \in { j \in Selected(p) : SentTo(p, j, "Email") \/ SentTo(p, j, "SMS") },
                                  c \in {"I", "J"} }
            /\ \A i \in DataIdxOf(rows[p]) :
                  /\ RowAt(sheet, i)["B"] = RowAt(rows[p], i)["B"]
                  /\ RowAt(sheet, i)["H"] = RowAt(rows[p], i)["H"]
                  /\ ~Wrote(p, i) => RowAt(sheet, i) = RowAt(rows[p], i)

\* A run has ended that wrote the second data row, read as "New", and left the
\* first, a row of another status, as it was.
C16_Witness ==
    \E p \in Procs :
        /\ pc[p] = "idle"
        /\ Len(rows[p]) = 3
        /\ ReadRaw(p, 1) = "Done"
        /\ ReadRaw(p, 2) = "New"
        /\ runWrites[p] = { <<3, "I">>, <<3, "J">> }
        /\ RawStatus(RowAt(sheet, 2)) = "Email Sent"
        /\ RowAt(sheet, 1) = RowAt(rows[p], 1)

\* The rows the job reads as "Email Sent".
SentRows == { i \in DataIdxOf(sheet) : StatusIn(sheet, i) = "Email Sent" }

\* C17 (one batch in flight): on a sheet that starts with no "Email Sent" row
\* (or with no more than BATCH_SIZE of them), whatever the non-overlapping runs
\* and the failures, at most BATCH_SIZE rows are "Email Sent" at any time.
C17_AtMostOneBatchInFlight == Cardinality(SentRows) <= BATCH_SIZE

\* The sheet started without "Email Sent" rows and with more than BATCH_SIZE
\* untouched ones; the first run has sent BATCH_SIZE Emails, and the second,
\* not a dry run, found that batch and has ended with the rest still "New".
C17_Witness ==
    /\ Idle
    /\ runs = 2
    /\ ~dry_run[Main]
    /\ ~NoActiveAtScan(Main)
    /\ Cardinality(fresh0) > BATCH_SIZE
    /\ \A i \in DataIdxOf(sheet) : i \in fresh0 \/ RawStatus(RowAt(sheet, i)) = "Done"
    /\ SentRows \subseteq fresh0
    /\ Cardinality(SentRows) = BATCH_SIZE
    /\ \E i \in fresh0 : RawStatus(RowAt(sheet, i)) = "New" /\ HasContact(RowAt(sheet, i))

\* Row i was, when p read the sheet, "Email Sent" with no contact id, no date
\* or a date that does not parse.
BlockedAtScan(p, i) ==
    ReadRaw(p, i) = "Email Sent" /\ DataError(RowAt(rows[p], i))

\* C18 (pipeline blocking): in a run that read a row as "Email Sent" with a
\* missing contact id or a missing or unparseable date, in every state and
\* after it, that row is as it was read, still "Email Sent"; and no row read as
\* "New" or "" is sent an Email or has another status than the one read.
C18_BlockedRowBlocksPipeline ==
    \A p \in Procs :
        (\E i \in DataIdxOf(rows[p]) : BlockedAtScan(p, i)) =>
            /\ \A i \in DataIdxOf(rows[p]) :
                  BlockedAtScan(p, i) =>
                      /\ RawStatus(RowAt(sheet, i)) = "Email Sent"
                      /\ RowAt(sheet, i) = RowAt(rows[p], i)
                      /\ ~SentTo(p, i, "SMS")
            /\ \A j \in DataIdxOf(rows[p]) :
                  ReadStripped(p, j) \in {"New", ""} =>
                      /\ ~SentTo(p, j, "Email")
                      /\ RawStatus(RowAt(sheet, j)) = ReadRaw(p, j)

\* A second run, not a dry run, made DELAY_HOURS after the first, has ended;
\* like the first it read an "Email Sent" row that cannot advance, next to an
\* untouched row with a contact id that is still waiting for its Email.
C18_Witness ==
    \E p \in Procs :
        /\ pc[p] = "idle" /\ ~dry_run[p] /\ exc[p] = ""
        /\ runs = 2
        /\ scanNow[p] >= DELAY_HOURS
        /\ \E i, j \in DataIdxOf(rows[p]) :
              /\ BlockedAtScan(p, i)
              /\ i \notin fresh0
              /\ ReadRaw(p, j) = "New"
              /\ HasContact(RowAt(sheet, j))
              /\ sendCount[j]["Email"] = 0

\* C19 (pipeline liveness): on well-formed data, under runs made again and
\* again with time passing, every send call returning and every write applied,
\* every row eventually has one of the statuses "Done", "Email Failed" and
\* "SMS Failed" (which it then keeps).
C19_PipelineLiveness ==
    <>(\A i \in DataIdxOf(sheet) :
          StatusIn(sheet, i) \in {"Done", "Email Failed", "SMS Failed"})
====
